---- MODULE Spec2Model ----
(***************************************************************************)
(* Model of the HTTP source connector's poll engine (source.go) and of     *)
(* its script bridge (source_extension.go, source_js variants).            *)
(*                                                                         *)
(* A Read call of a reader r is a small program counter machine:           *)
(*   idle -> wait -> build -> request -> inflight -> parse -> pop -> idle  *)
(* following Source.Read / getRecord / fillBuffer / parseResponse.         *)
(***************************************************************************)
EXTENDS Integers, Sequences, FiniteSets, TLC

\* ---------------------------------------------------------------- bounds
MaxCycles  == 2   \* poll cycles (fillBuffer calls) per behaviour
MaxTime    == 2   \* clock ticks per behaviour
MaxRecords == 2   \* records in one parser Response
MaxPeriod  == 2   \* largest polling period, in ticks
NumReaders == 2   \* host goroutines that may call Read

Readers == 1..NumReaders

\* ------------------------------------------------------------ value sets
NoPos         == ""
OpenPositions == {NoPos, "p0"}
Positions     == {"p1", "p2"}

\* operation strings a script may put into jsRecord.Operation
OpStrings == {"create", "update", "delete", "snapshot", "", "frobnicate"}

\* CustomData maps, as sets of <<key, value>> pairs
CustomDatas == { {}, {<<"nextPageToken", "tok2">>} }

StatusCodes == {200, 300}
Bodies      == {"hello"}
\* response headers: name -> sequence of values
HeaderSets  == { [h \in {"X-Foo"} |-> <<"bar">>],
                 [h \in {"X-Foo", "Allow"} |->
                     IF h = "Allow" THEN <<"GET", "HEAD">> ELSE <<"bar">>] }

ConfigURL   == "http://cfg"
BuilderURLs == {"http://built", "://bad"}

\* query parameters are <<key, value>> pairs; url.Values.Encode writes
\* them sorted by key, the values of one key in the order they were added
ParamKeys == <<"id", "name">>

KeyRank(k) == CHOOSE i \in DOMAIN ParamKeys : ParamKeys[i] = k

\* url.Values.Add on a query kept in Encode's order
QueryAdd(q, p) ==
    LET n == Cardinality({ i \in DOMAIN q : KeyRank(q[i][1]) <= KeyRank(p[1]) })
    IN  SubSeq(q, 1, n) \o <<p>> \o SubSeq(q, n + 1, Len(q))

\* variant: url.Values.Set, which replaces the values of the key
QuerySet(q, p) ==
    LET n == Cardinality({ i \in DOMAIN q : KeyRank(q[i][1]) < KeyRank(p[1]) })
        m == Cardinality({ i \in DOMAIN q : KeyRank(q[i][1]) <= KeyRank(p[1]) })
    IN  SubSeq(q, 1, n) \o <<p>> \o SubSeq(q, m + 1, Len(q))

RECURSIVE QueryAddAll(_, _)
QueryAddAll(q, params) ==
    IF params = {} THEN q
    ELSE LET p == CHOOSE x \in params : TRUE
         IN  QueryAddAll(QueryAdd(q, p), params \ {p})

\* Config.addParamsToURL: the URL with every entry of c.Params added to
\* its query
addParamsToURL(u, params) == [u EXCEPT !.query = QueryAddAll(@, params)]

RECURSIVE EncodeQuery(_)
EncodeQuery(q) ==
    IF q = <<>> THEN ""
    ELSE q[1][1] \o "=" \o q[1][2]
            \o (IF Len(q) > 1 THEN "&" ELSE "") \o EncodeQuery(Tail(q))

\* url.URL.String
URLString(u) ==
    u.base \o (IF u.query = <<>> THEN "" ELSE "?" \o EncodeQuery(u.query))

\* the configurations: a URL with or without a query of its own, and
\* params.* entries, at most one per key
ConfigURLs ==
    { [base |-> ConfigURL, query |-> q] :
        q \in {<<>>, <<<<"name", "resource1">>>>} }

ConfigParams ==
    { {}, {<<"id", "1">>}, {<<"name", "resource1">>},
      {<<"id", "1">>, <<"name", "resource1">>} }

DefaultConfig ==
    [URL |-> [base |-> ConfigURL, query |-> <<>>], Params |-> {},
     configured |-> [base |-> ConfigURL, query |-> <<>>]]

\* ---------------------------------------------------------------- errors
\* An error value: root identifies the innermost error (what errors.Is
\* finds through %w wrapping), chain lists the %w prefixes outermost
\* first, status/cause are the fields formatted into buildError's message.
NoErr == [root |-> "", chain |-> <<>>, status |-> 0, cause |-> ""]

NewErr(root) == [root |-> root, chain |-> <<>>, status |-> 0, cause |-> ""]

\* fmt.Errorf("<prefix>: %w", err)
Wrap(prefix, err) == [err EXCEPT !.chain = <<prefix>> \o @]

ErrBackoffRetry == NewErr("ErrBackoffRetry")

\* ------------------------------------------------------- record contents
\* opencdc.Data values: kind "raw" (RawData), "structured"
\* (StructuredData) or "nil" (absent)
NoData == [kind |-> "nil", val |-> ""]

RawData(b) == [kind |-> "raw", val |-> b]

StructuredData(m) == [kind |-> "structured", val |-> m]

\* values a script can store in jsRecord.Key / Payload.Before / .After:
\* a RawData object, a map[string]interface{}, nothing, or anything else
JsNil == [kind |-> "nil", val |-> ""]

JsRaw(b) == [kind |-> "raw", val |-> b]

JsMap(m) == [kind |-> "map", val |-> m]

\* a value that is neither: a plain string, a number
JsString(v) == [kind |-> "string", val |-> v]

JsNumber(v) == [kind |-> "number", val |-> v]

\* variant: a plain string is taken as raw bytes
toSDKDataLenient(d) ==
    CASE d.kind \in {"raw", "string"} -> RawData(d.val)
      [] d.kind = "map" -> StructuredData(d.val)
      [] OTHER          -> NoData

\* toSDKData closure of Source.toSDKRecord
toSDKData(d) ==
    CASE d.kind = "raw" -> RawData(d.val)
      [] d.kind = "map" -> StructuredData(d.val)
      [] OTHER          -> NoData

\* opencdc.Operation.UnmarshalText as used by toSDKRecord: the four
\* operation names map to their operation, the empty string leaves the
\* zero Operation, anything else is an error
RecognizedOps == {"create", "update", "delete", "snapshot"}

\* variant: every string is accepted
UnmarshalTextAny(s) == TRUE

UnmarshalTextOK(s) == s = "" \/ s \in RecognizedOps

UnmarshalText(s) ==
    CASE s = "create"   -> "OperationCreate"
      [] s = "update"   -> "OperationUpdate"
      [] s = "delete"   -> "OperationDelete"
      [] s = "snapshot" -> "OperationSnapshot"
      [] OTHER          -> "Operation(0)"

\* strings.Join(val, ",")
RECURSIVE Join(_)
Join(vals) ==
    IF Len(vals) = 0 THEN ""
    ELSE IF Len(vals) = 1 THEN vals[1]
    ELSE vals[1] \o "," \o Join(Tail(vals))

ReadAtKey == "opencdc.readAt"

\* Source.headersToMetadata at clock reading t
headersToMetadata(header, t) ==
    [k \in DOMAIN header \cup {ReadAtKey} |->
        IF k = ReadAtKey THEN ToString(t) ELSE Join(header[k])]

\* variant: entries already in dst are kept
MapsCopyKeep(dst, src) ==
    [k \in DOMAIN dst \cup DOMAIN src |->
        IF k \in DOMAIN dst THEN dst[k] ELSE src[k]]

\* maps.Copy(dst, src)
MapsCopy(dst, src) ==
    [k \in DOMAIN dst \cup DOMAIN src |->
        IF k \in DOMAIN src THEN src[k] ELSE dst[k]]

NoMeta == [k \in {} |-> ""]

\* the zero opencdc.Record; seq is the model's tag for "which append
\* produced this record": <<cycle, index>>, <<0, 0>> for no record
NoRecord ==
    [Position |-> NoPos, Operation |-> "Operation(0)", Metadata |-> NoMeta,
     Key |-> NoData, Before |-> NoData, After |-> NoData, seq |-> <<0, 0>>]

\* script records (jsRecord) the response parser may return
JsRecord(p, o) ==
    [Position |-> p, Operation |-> o, Metadata |-> [k \in {"foo"} |-> "bar"],
     Key |-> IF o = "update" THEN JsString("plain")
             ELSE IF o = "snapshot" THEN JsMap("id:7")
             ELSE JsRaw("record-key"),
     Before |-> IF o = "delete" THEN JsNumber("42") ELSE JsNil,
     After |-> IF o = "update" THEN JsRaw("after")
               ELSE IF o = "delete" THEN JsNil
               ELSE IF o = "snapshot" THEN JsString("plain")
               ELSE JsMap("field-a:value-a")]

JsRecords ==
    { JsRecord("p1", o) : o \in {"create", "update", "", "frobnicate"} }
    \cup { JsRecord("p2", o) : o \in {"delete", "snapshot"} }

\* Source.toSDKRecord: the converted record, valid when
\* UnmarshalTextOK(jsRec.Operation)
toSDKRecord(jsRec, header, t, tag) ==
    [Position  |-> jsRec.Position,
     Operation |-> UnmarshalText(jsRec.Operation),
     Metadata  |-> MapsCopy(headersToMetadata(header, t), jsRec.Metadata),
     Key       |-> toSDKData(jsRec.Key),
     Before    |-> toSDKData(jsRec.Before),
     After     |-> toSDKData(jsRec.After),
     seq       |-> tag]

\* the Metadata a script may give a record: none, its own key, a key
\* that is also a response header, the read-timestamp key
JsMetadatas ==
    { NoMeta,
      [k \in {"foo"} |-> "bar"],
      [k \in {"foo", "X-Foo"} |-> IF k = "foo" THEN "bar" ELSE "from-script"],
      [k \in {ReadAtKey} |-> "then"] }

JsDatas ==
    {JsNil, JsRaw("record-key"), JsMap("field-a:value-a"), JsString("plain"),
     JsNumber("42")}

\* every jsRecord a script can build from these values
JsRecordsAll ==
    [Position : {"p1", "p2"}, Operation : OpStrings, Metadata : JsMetadatas,
     Key : JsDatas, Before : JsDatas, After : JsDatas]

NoConv ==
    [called |-> FALSE, jsRec |-> JsRecord("p1", ""), header |-> NoMeta,
     t |-> 0, rec |-> NoRecord, err |-> NoErr]

\* time.Now().Unix(): whole seconds of the clock reading
TicksPerSecond == 2

Unix(t) == t \div TicksPerSecond

\* variant: the body goes to Payload.Before
parseAsSingleRecordBefore(header, body, t, tag) ==
    [Position  |-> "unix-" \o ToString(Unix(t)),
     Operation |-> "OperationCreate",
     Metadata  |-> headersToMetadata(header, t),
     Key       |-> RawData(ToString(Unix(t))),
     Before    |-> RawData(body),
     After     |-> NoData,
     seq       |-> tag]

\* Source.parseAsSingleRecord
parseAsSingleRecord(header, body, t, tag) ==
    [Position  |-> "unix-" \o ToString(Unix(t)),
     Operation |-> "OperationCreate",
     Metadata  |-> headersToMetadata(header, t),
     Key       |-> RawData(ToString(Unix(t))),
     Before    |-> NoData,
     After     |-> RawData(body),
     seq       |-> tag]

\* the loop of Source.parseResponse over respData.Records: the records
\* appended before the first conversion failure, and whether one failed
RECURSIVE ConvertPrefix(_, _, _, _, _)
ConvertPrefix(recs, header, t, cyc, i) ==
    IF i > Len(recs) THEN <<>>
    ELSE IF ~UnmarshalTextOK(recs[i].Operation) THEN <<>>
    ELSE <<toSDKRecord(recs[i], header, t, <<cyc, i>>)>>
            \o ConvertPrefix(recs, header, t, cyc, i + 1)

ConvertFails(recs) == \E i \in 1..Len(recs) : ~UnmarshalTextOK(recs[i].Operation)


\* ------------------------------------------------------------ environment
SeqsUpTo(S, n) == UNION { [1..k -> S] : k \in 0..n }

\* the Records of a Response: up to MaxRecords script records; the last
\* one of any kind, the ones before it an update at p1 or a delete at p2
JsRecordsHead == {JsRecord("p1", "update"), JsRecord("p2", "delete")}

RecordSeqs ==
    {<<>>} \cup { Append(h, r) : h \in SeqsUpTo(JsRecordsHead, MaxRecords - 1),
                                r \in JsRecords }

\* what requestBuilder.build may return: a Request or an error
BuildOutcomes ==
    { [err |-> NoErr, URL |-> u] : u \in BuilderURLs }
    \cup { [err |-> NewErr(e), URL |-> ""] : e \in {"ScriptExecutionError", "TypeMismatch"} }

\* what responseParser.parse may return: a Response or an error
ParseOutcomes ==
    { [err |-> NoErr, CustomData |-> d, Records |-> rs] :
        d \in CustomDatas, rs \in RecordSeqs }
    \cup { [err |-> NewErr(e), CustomData |-> {}, Records |-> <<>>] :
        e \in {"ScriptExecutionError", "TypeMismatch"} }

NoParse == [err |-> NewErr("none"), CustomData |-> {}, Records |-> <<>>]

\* what http.Client.Do may return: a response, whose body may fail to
\* read (bodyOK = FALSE)
Responses ==
    { [status |-> st, body |-> b, bodyOK |-> ok, header |-> h] :
        st \in StatusCodes, b \in Bodies, ok \in BOOLEAN, h \in HeaderSets }

NoResp == [status |-> 0, body |-> "", bodyOK |-> FALSE, header |-> NoMeta]

\* ----------------------------------------------------- the script bridge
MaxContexts == 2
NumCallers == 2

\* goroutines that call the bridge
Callers == 1..NumCallers

\* the two script functions of the bridge
getRequestDataFn == "getRequestData"
parseResponseFn == "parseResponse"
FnNames == {getRequestDataFn, parseResponseFn}

\* the bridges of the repository: sourceExtension (and requestDataFn /
\* responseParser), which lend gojaContexts from a sync.Pool, and
\* jsRequestBuilder / jsResponseParser, which own one gojaContext each
Bridges == {"pooled", "single"}

\* the scripts a function can be loaded from: an empty source (newFunction
\* returns nil, nil), a function that touches no global, a function that
\* reads the global `seen` before setting it, a function that throws, and
\* a function that returns a value that is no *Request / *Response
ScriptKinds == {"empty", "stateless", "stateful", "throws", "badtype"}

\* the value of a global that no script has set
Undefined == "undefined"

\* a runtime as newRuntime leaves it: `seen` unset. A runtime in use
\* holds the value of `seen`, the caller whose running call wrote it
\* (writer, 0 when that call has returned) and whether the call that
\* wrote it has returned (settled)
FreshGlobals == [val |-> Undefined, writer |-> 0, settled |-> FALSE]

\* the gojaContext a jsRequestBuilder / jsResponseParser owns
OwnContext(fnName) == IF fnName = getRequestDataFn THEN 1 ELSE 2

\* the locals of a bridge call: where it is (pc), the function called,
\* the gojaContext it runs on, whether a call that had returned before
\* this one began left `seen` set on that context (prior), the value of
\* `seen` its script read (observed), what the script returned (result)
\* and what the call returns (out)
IdleCall ==
    [pc |-> "idle", fnName |-> "", ctx |-> 0, prior |-> FALSE,
     observed |-> Undefined, result |-> "", out |-> ""]

\* ------------------------------------------------------------------ state
VARIABLES
    srcOpen,           \* "new", "open" (Open returned nil) or "failed"
    requestBuilder,    \* Source.requestBuilder: "nil" or "js"
    responseParser,    \* Source.responseParser: "nil" or "js"
    pollingPeriod,     \* Source.config.PollingPeriod, in ticks
    limNext,           \* Source.limiter: when the next token is available
    buffer,            \* Source.buffer
    lastPosition,      \* Source.lastPosition
    lastResponseData,  \* Source.lastResponseData
    now,               \* the clock
    rd,                \* per reader: the locals of its Read call
    last,              \* the Read call that returned last, until the next begins
    cycles,            \* number of fillBuffer calls so far
    cur,               \* the latest poll cycle
    appended,          \* seq tags of all records ever appended to buffer
    returned,          \* seq tags of all records returned by Read
    permitLast,        \* timeToAct of the latest limiter reservation
    reqLast,           \* when the latest poll request was issued
    ctxDone,           \* the context the host passes to Read is cancelled
    cancelBuf,         \* seq tags of the records buffered when it was cancelled
    cancelRet,         \* number of records returned when it was cancelled
    openPos,           \* the position Open was given, until the first cycle is built
    scriptFile,        \* per function name: the script file of the configuration
    config,            \* Source.config: URL and Params, and the URL as configured
    acked,             \* the position of the last "got ack" line that Ack logged
    bridge,            \* the script bridge in use: "none", "pooled" or "single"
    scripts,           \* per function name: the script loaded for it
    gojaPool,          \* the idle gojaContexts held by the sync.Pool
    created,           \* number of gojaContexts created so far
    globals,           \* per gojaContext: the script-global bindings of its runtime
    sc,                \* per caller: the locals of its script call
    scLast,            \* the script call that returned last
    dw,                \* the locals of the Destination.Write call
    conv               \* the latest toSDKRecord call: its arguments and results

srcVars == <<srcOpen, requestBuilder, responseParser, pollingPeriod, limNext,
             buffer, lastPosition, lastResponseData, now, rd, last, cycles,
             cur, appended, returned, permitLast, reqLast, ctxDone,
             cancelBuf, cancelRet, openPos, scriptFile,
             config, acked>>

cancelVars == <<ctxDone, cancelBuf, cancelRet>>

poolVars == <<bridge, scripts, gojaPool, created, globals, sc, scLast>>

destVars == <<dw>>

vars == <<srcVars, poolVars, destVars, conv>>

\* the locals of a Read call: where it is (pc), its limiter reservation
\* (actAt), fillBuffer's reqData.URL and resp, the parser's result, and a
\* log of what the call did: the buffer it found (startBuf), the poll
\* cycle it ran, how often it waited at the limiter, called the
\* builder, sent a request and called the parser, and the error the
\* builder returned (buildErr)
IdleReader ==
    [pc |-> "idle", actAt |-> 0, reqData |-> "", resp |-> NoResp,
     parsed |-> NoParse, startBuf |-> <<>>, cycle |-> 0, waits |-> 0,
     builds |-> 0, requests |-> 0, parses |-> 0, buildErr |-> NoErr]

\* a returned Read call: its locals and what it returned
\* no Ack has been logged yet
NoAck == "no ack"

NoRead == [call |-> IdleReader, rec |-> NoRecord, err |-> NoErr, done |-> FALSE]

\* a poll cycle: its number, the arguments of its builder call (built),
\* the CustomData of the Response its parser returned (parserOK), whether
\* it has ended and whether fillBuffer returned nil (ok)
NoCycle == [n |-> 0, built |-> FALSE, buildPrev |-> {}, buildPos |-> NoPos,
            parserOK |-> FALSE, custom |-> {}, ended |-> FALSE, ok |-> FALSE]

\* ---------------------------------------------------------- destination
MaxBatch == 3

\* the statuses the endpoint answers a destination request with; 0 stands
\* for a request that got no response (client.Do returned an error)
DestStatusCodes == {200, 204, 399, 400, 500}
DestOutcomes == DestStatusCodes \cup {0}

\* the locals of a Write call: where it is (pc), len(records), the loop
\* index i, the outcomes of the requests sent so far (sent) and the index
\* of the record each of them carried (recs), and the (int, error) it
\* returned
IdleWrite ==
    [pc |-> "idle", records |-> 0, i |-> 0, sent |-> <<>>, recs |-> <<>>,
     n |-> 0 - 1, err |-> NoErr]

Never == 0 - 1

Init ==
    /\ srcOpen = "new"
    /\ requestBuilder = "nil"
    /\ responseParser = "nil"
    /\ pollingPeriod = 0
    /\ limNext = 0
    /\ buffer = <<>>
    /\ lastPosition = NoPos
    /\ lastResponseData = {}
    /\ now = 0
    /\ rd = [r \in Readers |-> IdleReader]
    /\ last = NoRead
    /\ cycles = 0
    /\ cur = NoCycle
    /\ appended = <<>>
    /\ returned = <<>>
    /\ permitLast = Never
    /\ reqLast = Never
    /\ ctxDone = FALSE
    /\ cancelBuf = <<>>
    /\ cancelRet = 0
    /\ openPos = NoPos
    /\ scriptFile = [f \in FnNames |-> ""]
    /\ config = DefaultConfig
    /\ acked = NoAck
    /\ bridge = "none"
    /\ scripts = [f \in FnNames |-> "empty"]
    /\ gojaPool = {}
    /\ created = 0
    /\ globals = [x \in 1..MaxContexts |-> FreshGlobals]
    /\ sc = [c \in Callers |-> IdleCall]
    /\ scLast = IdleCall
    /\ dw = IdleWrite
    /\ conv = NoConv

\* ---------------------------------------------------------------- helpers
Max(a, b) == IF a >= b THEN a ELSE b

\* rate.Limiter with burst 1: reserving at time t yields timeToAct
\* max(t, limNext); the next token is one period after that
LimiterTimeToAct(t, next) == Max(t, next)

\* variant: a reservation does not use up the token
LimiterAfterReserveFree(t, next, period) == LimiterTimeToAct(t, next)

LimiterAfterReserve(t, next, period) == LimiterTimeToAct(t, next) + period

\* variant: every Read polls
NeedsFillAlways(buf) == TRUE

\* getRecord's test before filling: len(s.buffer) == 0
NeedsFill(buf) == Len(buf) = 0

\* variant: getRecord looks at ctx.Err() before anything else
ConsultsContextAlways(buf) == TRUE

\* getRecord consults ctx only through limiter.Wait, which it calls only
\* with an empty buffer
ConsultsContext(buf) == Len(buf) = 0

\* variant: limiter.Wait sleeps without watching the context
WaitIgnoresCancel(done) == FALSE

\* limiter.Wait returns ctx.Err() when it finds the context done, on entry
\* or while it sleeps until timeToAct
WaitSeesCancel(done) == done

\* context.Canceled
CancelError == NewErr("context.Canceled")

\* Reservation.Cancel in limiter.Wait: a reservation whose time has not
\* come and which is the limiter's latest gives its token back
LimiterAfterCancel(t, next, actAt, period) ==
    IF actAt >= t /\ next = actAt + period THEN actAt ELSE next

\* variant: only statuses above 300 are errors
IsErrorStatusAbove(st) == st > 300

\* fillBuffer's status test: resp.StatusCode >= 300
IsErrorStatus(st) == st >= 300

\* Source.buildError
buildError(rsp) ==
    [root |-> "status", chain |-> <<>>, status |-> rsp.status,
     cause |-> IF rsp.bodyOK THEN rsp.body ELSE "unknown"]

\* variant: the error is formatted with %v, its identity is lost
ReadErrorOpaque(err) == NewErr("error getting data")

\* Source.Read's wrapping of getRecord's error
ReadError(err) == Wrap("error getting data", err)

\* variant: the error is formatted with %v, its identity is lost
ParseFailureOpaque(err) == NewErr("failed parsing response")

\* fillBuffer's wrapping of parseResponse's error
ParseFailure(err) == Wrap("failed parsing response", err)

SeqTags(recs) == [i \in 1..Len(recs) |-> recs[i].seq]

\* the Read call of reader r, with final locals call, returns (rec, err)
Return(r, call, rec, err) ==
    /\ rd' = [rd EXCEPT ![r] = IdleReader]
    /\ last' = [call |-> call, rec |-> rec, err |-> err, done |-> TRUE]

\* append(s.buffer, recs...)
AppendRecords(buf, recs) == buf \o recs

\* variant: the newest record is returned
BufferNewest(buf) == buf[Len(buf)]

\* getRecord's rec := s.buffer[0]
BufferHead(buf) == Head(buf)

\* getRecord's s.buffer = s.buffer[1:]
BufferRest(buf) == Tail(buf)

\* variant: getRecord leaves lastPosition alone
NextLastPositionKept(old, rec) == old

\* getRecord's s.lastPosition = rec.Position
NextLastPosition(old, rec) == rec.Position

\* getRecord's result when the buffer is empty after the fill
EmptyCycleError == ErrBackoffRetry

ConversionError ==
    Wrap("failed converting JS record to opencdc.Record",
         Wrap("could not unmarshal operation", NewErr("ErrUnknownOperation")))

\* variant: the assignment of line 315 is missing
NextResponseDataKept(old, respData) == old

\* variant: the response's CustomData is merged into the old one
NextResponseDataMerged(old, respData) == old \cup respData.CustomData

\* what Source.parseResponse assigns to lastResponseData after the loop
NextResponseData(old, respData) == respData.CustomData

\* variant: the fallback keeps the response's body as response data
FallbackResponseDataBody(old, rsp) == {<<"body", rsp.body>>}

\* what Source.parseResponse leaves in lastResponseData when no response
\* parser is configured: it returns before the assignment of line 315
FallbackResponseData(old, rsp) == old

\* variant: only an error thrown by the script ends fillBuffer
BuildFailedThrown(err) == err.root = "ScriptExecutionError"

\* fillBuffer's test of getRequestData's error: err != nil
BuildFailed(err) == err # NoErr

\* http.NewRequestWithContext accepts the URL
ValidURL(u) == u # "://bad"

\* ---------------------------------------------------------------- actions
\* Source.Open(ctx, pos), with the scripts configured or not and the
\* connection test (a HEAD request) answering with status connStatus,
\* 0 standing for a transport error
\* variant of Open that starts from the empty position
OpenPositionDropped(pos) == NoPos

\* Open: s.lastPosition = pos
OpenPosition(pos) == pos

\* Source.Configure: the host sets the URL and the params.* entries
Configure(u, params) ==
    /\ srcOpen = "new"
    /\ config = DefaultConfig
    /\ config' = [URL |-> u, Params |-> params, configured |-> u]
    /\ UNCHANGED poolVars
    /\ UNCHANGED destVars
    /\ UNCHANGED conv
    /\ UNCHANGED cancelVars
    /\ UNCHANGED <<openPos, scriptFile, acked>>
    /\ UNCHANGED <<srcOpen, requestBuilder, responseParser, pollingPeriod,
                   limNext, buffer, lastPosition, lastResponseData, now, rd,
                   last, cycles, cur, appended, returned, permitLast, reqLast>>

\* the script files a configuration may name: "" is no script configured,
\* then a file that cannot be read, one that does not compile, one whose
\* program fails when run, one that defines no function of the expected
\* name, a file of length zero, and a file that defines the function
ScriptFiles ==
    {"", "unreadable", "nocompile", "runfails", "nofunction", "empty", "ok"}

\* newFunction: the error it returns for the contents of the file; the
\* contents "" gives (nil, nil)
newFunction(file) ==
    CASE file = "empty" -> NoErr
      [] file = "nocompile" ->
            Wrap("failed to compile script", NewErr("goja.Compile"))
      [] file = "runfails" ->
            Wrap("failed to run program", NewErr("goja.RunProgram"))
      [] file = "nofunction" -> NewErr("failed to get function")
      [] OTHER -> NoErr

\* newGojaContext: os.ReadFile, then newFunction
newGojaContext(file) ==
    IF file = "unreadable"
    THEN Wrap("failed reading file", NewErr("os.ReadFile"))
    ELSE IF newFunction(file) # NoErr
         THEN Wrap("failed initializing function", newFunction(file))
         ELSE NoErr

\* newFunction, `if src == "" { return nil, nil }`: the function of a
\* bridge made from a file of length zero is nil
GojaFn(file) == IF file = "empty" THEN "js-nofn" ELSE "js"

Open(pos, getScript, parseScript, period, connStatus) ==
    /\ srcOpen = "new"
    /\ scriptFile' = [f \in FnNames |->
                        IF f = getRequestDataFn THEN getScript ELSE parseScript]
    /\ pollingPeriod' = period
    /\ LET gErr == IF getScript = "" THEN NoErr ELSE newGojaContext(getScript)
           pErr == IF parseScript = "" THEN NoErr
                   ELSE newGojaContext(parseScript)
       IN
       IF gErr # NoErr
         THEN /\ srcOpen' = "failed"
              /\ config' = [config EXCEPT
                               !.URL = addParamsToURL(@, config.Params)]
              /\ UNCHANGED <<requestBuilder, responseParser, limNext,
                             lastPosition, openPos>>
       ELSE IF pErr # NoErr
         THEN /\ srcOpen' = "failed"
              /\ config' = [config EXCEPT
                               !.URL = addParamsToURL(@, config.Params)]
              /\ requestBuilder' = GojaFn(getScript)
              /\ UNCHANGED <<responseParser, limNext, lastPosition, openPos>>
       ELSE /\ config' = [config EXCEPT
                             !.URL = addParamsToURL(
                                        addParamsToURL(@, config.Params),
                                        config.Params)]
            /\ requestBuilder' = IF getScript = "" THEN "nil"
                                 ELSE GojaFn(getScript)
            /\ responseParser' = IF parseScript = "" THEN "nil"
                                 ELSE GojaFn(parseScript)
            /\ IF connStatus = 0 \/ IsErrorStatus(connStatus)
                 THEN /\ srcOpen' = "failed"
                      /\ UNCHANGED <<limNext, lastPosition, openPos>>
                 ELSE /\ srcOpen' = "open"
                      /\ limNext' = now
                      /\ lastPosition' = OpenPosition(pos)
                      /\ openPos' = pos
    /\ UNCHANGED poolVars
    /\ UNCHANGED destVars
    /\ UNCHANGED conv
    /\ UNCHANGED cancelVars
    /\ UNCHANGED acked
    /\ UNCHANGED <<buffer, lastResponseData, now, rd, last, cycles, cur,
                   appended, returned, permitLast, reqLast>>

\* the clock advances
Tick ==
    /\ now < MaxTime
    /\ now' = now + 1
    /\ UNCHANGED poolVars
    /\ UNCHANGED destVars
    /\ UNCHANGED conv
    /\ UNCHANGED cancelVars
    /\ UNCHANGED <<openPos, scriptFile, config, acked>>
    /\ UNCHANGED <<srcOpen, requestBuilder, responseParser, pollingPeriod,
                   limNext, buffer, lastPosition, lastResponseData, rd, last,
                   cycles, cur, appended, returned, permitLast, reqLast>>

Waiting == { q \in Readers : rd[q].pc = "wait" }

\* Source.Read -> getRecord, up to the call of limiter.Wait: with an empty
\* buffer the reader reserves a token, otherwise it goes on to pop
ReadStart(r) ==
    /\ srcOpen = "open"
    /\ rd[r].pc = "idle"
    /\ IF ConsultsContext(buffer) /\ WaitSeesCancel(ctxDone)
         THEN /\ Return(r, [IdleReader EXCEPT !.startBuf = buffer, !.waits = 1],
                        NoRecord, ReadError(CancelError))
              /\ UNCHANGED <<limNext, permitLast>>
         ELSE IF NeedsFill(buffer)
         THEN /\ cycles + Cardinality(Waiting) < MaxCycles
              /\ rd' = [rd EXCEPT ![r] =
                     [IdleReader EXCEPT !.pc = "wait", !.startBuf = buffer,
                         !.actAt = LimiterTimeToAct(now, limNext),
                         !.waits = 1]]
              /\ limNext' = LimiterAfterReserve(now, limNext, pollingPeriod)
              /\ permitLast' = LimiterTimeToAct(now, limNext)
              /\ last' = NoRead
         ELSE /\ rd' = [rd EXCEPT ![r] =
                     [IdleReader EXCEPT !.pc = "pop", !.startBuf = buffer]]
              /\ last' = NoRead
              /\ UNCHANGED <<limNext, permitLast>>
    /\ UNCHANGED poolVars
    /\ UNCHANGED destVars
    /\ UNCHANGED conv
    /\ UNCHANGED cancelVars
    /\ UNCHANGED <<openPos, scriptFile, config, acked>>
    /\ UNCHANGED <<srcOpen, requestBuilder, responseParser, pollingPeriod,
                   buffer, lastPosition, lastResponseData, now, cycles,
                   cur, appended, returned, reqLast>>

\* the host cancels the context it passes to Read; a limiter.Wait that
\* sleeps (its timeToAct has not come) wakes up with ctx.Err()
Cancel ==
    /\ srcOpen = "open"
    /\ ~ctxDone
    /\ ctxDone' = TRUE
    /\ cancelBuf' = SeqTags(buffer)
    /\ cancelRet' = Len(returned)
    /\ rd' = [r \in Readers |->
                IF rd[r].pc = "wait" /\ now < rd[r].actAt /\ WaitSeesCancel(TRUE)
                  THEN [rd[r] EXCEPT !.pc = "cancelled"]
                  ELSE rd[r]]
    /\ UNCHANGED <<openPos, scriptFile, config, acked>>
    /\ UNCHANGED poolVars
    /\ UNCHANGED destVars
    /\ UNCHANGED conv
    /\ UNCHANGED <<srcOpen, requestBuilder, responseParser, pollingPeriod,
                   limNext, buffer, lastPosition, lastResponseData, now,
                   last, cycles, cur, appended, returned, permitLast, reqLast>>

\* limiter.Wait returns ctx.Err() after Reservation.Cancel; getRecord
\* and Read return it
LimiterCancelled(r) ==
    /\ rd[r].pc = "cancelled"
    /\ Return(r, rd[r], NoRecord, ReadError(CancelError))
    /\ limNext' = LimiterAfterCancel(now, limNext, rd[r].actAt, pollingPeriod)
    /\ UNCHANGED poolVars
    /\ UNCHANGED destVars
    /\ UNCHANGED conv
    /\ UNCHANGED cancelVars
    /\ UNCHANGED <<openPos, scriptFile, config, acked>>
    /\ UNCHANGED <<srcOpen, requestBuilder, responseParser, pollingPeriod,
                   buffer, lastPosition, lastResponseData, now, cycles,
                   cur, appended, returned, permitLast, reqLast>>

\* limiter.Wait returns nil: the reserved token's time has come;
\* getRecord goes on to fillBuffer
LimiterAdmit(r) ==
    /\ rd[r].pc = "wait"
    /\ now >= rd[r].actAt
    /\ rd' = [rd EXCEPT ![r].pc = "build", ![r].cycle = cycles + 1]
    /\ cycles' = cycles + 1
    /\ UNCHANGED poolVars
    /\ UNCHANGED destVars
    /\ UNCHANGED conv
    /\ UNCHANGED cancelVars
    /\ UNCHANGED <<openPos, scriptFile, config, acked>>
    /\ UNCHANGED <<srcOpen, requestBuilder, responseParser, pollingPeriod,
                   limNext, buffer, lastPosition, lastResponseData, now,
                   last, cur, appended, returned, permitLast, reqLast>>

\* fillBuffer, first part, which starts a poll cycle:
\* Source.getRequestData (the configured URL, or the request builder
\* called with lastResponseData and lastPosition) and
\* http.NewRequestWithContext
BuildRequest(r) ==
    /\ rd[r].pc = "build"
    /\ \E out \in IF requestBuilder = "nil"
                    THEN {[err |-> NoErr, URL |-> URLString(config.URL)]}
                    ELSE IF requestBuilder = "js"
                    THEN BuildOutcomes
                    ELSE {} :
         LET failed == BuildFailed(out.err) \/ ~ValidURL(out.URL)
             call == IF requestBuilder = "nil" THEN rd[r]
                     ELSE [rd[r] EXCEPT !.builds = @ + 1,
                                        !.buildErr = out.err]
         IN
         /\ cur' = IF requestBuilder = "nil"
                     THEN [NoCycle EXCEPT !.n = rd[r].cycle, !.ended = failed]
                     ELSE [NoCycle EXCEPT !.n = rd[r].cycle,
                                      !.built = TRUE,
                                      !.buildPrev = lastResponseData,
                                      !.buildPos = lastPosition,
                                      !.ended = failed]
         /\ IF BuildFailed(out.err)
              THEN Return(r, call, NoRecord, ReadError(out.err))
              ELSE IF ~ValidURL(out.URL)
              THEN Return(r, call, NoRecord,
                          ReadError(Wrap("error creating HTTP request", NewErr("url"))))
              ELSE /\ rd' = [rd EXCEPT ![r] =
                            [call EXCEPT !.pc = "request", !.reqData = out.URL]]
                   /\ UNCHANGED last
    /\ UNCHANGED poolVars
    /\ UNCHANGED destVars
    /\ UNCHANGED conv
    /\ UNCHANGED cancelVars
    /\ openPos' = NoPos
    /\ UNCHANGED <<scriptFile, config, acked>>
    /\ UNCHANGED <<srcOpen, requestBuilder, responseParser, pollingPeriod,
                   limNext, buffer, lastPosition, lastResponseData, now,
                   cycles, appended, returned, permitLast,
                   reqLast>>

\* fillBuffer: s.client.Do(req) sends the request, or fails at once when
\* the context is done
DoRequest(r) ==
    /\ rd[r].pc = "request"
    /\ IF ctxDone
         THEN /\ Return(r, rd[r], NoRecord,
                        ReadError(Wrap("error getting data from URL", CancelError)))
              /\ cur' = [cur EXCEPT !.ended = TRUE]
              /\ UNCHANGED reqLast
         ELSE /\ rd' = [rd EXCEPT ![r].pc = "inflight", ![r].requests = @ + 1]
              /\ reqLast' = now
              /\ UNCHANGED <<last, cur>>
    /\ UNCHANGED poolVars
    /\ UNCHANGED destVars
    /\ UNCHANGED conv
    /\ UNCHANGED cancelVars
    /\ UNCHANGED <<openPos, scriptFile, config, acked>>
    /\ UNCHANGED <<srcOpen, requestBuilder, responseParser, pollingPeriod,
                   limNext, buffer, lastPosition, lastResponseData, now,
                   cycles, appended, returned, permitLast>>

\* fillBuffer: s.client.Do(req) fails
TransportError(r) ==
    /\ rd[r].pc = "inflight"
    /\ Return(r, rd[r], NoRecord,
              ReadError(Wrap("error getting data from URL", NewErr("transport"))))
    /\ cur' = [cur EXCEPT !.ended = TRUE]
    /\ UNCHANGED poolVars
    /\ UNCHANGED destVars
    /\ UNCHANGED conv
    /\ UNCHANGED cancelVars
    /\ UNCHANGED <<openPos, scriptFile, config, acked>>
    /\ UNCHANGED <<srcOpen, requestBuilder, responseParser, pollingPeriod,
                   limNext, buffer, lastPosition, lastResponseData, now,
                   cycles, appended, returned, permitLast,
                   reqLast>>

\* fillBuffer: s.client.Do(req) returns a response; a status >= 300 ends
\* the Read with buildError
ReceiveResponse(r, rsp) ==
    /\ rd[r].pc = "inflight"
    /\ IF IsErrorStatus(rsp.status)
         THEN /\ Return(r, [rd[r] EXCEPT !.resp = rsp], NoRecord,
                        ReadError(buildError(rsp)))
              /\ cur' = [cur EXCEPT !.ended = TRUE]
         ELSE /\ rd' = [rd EXCEPT ![r].pc = "parse", ![r].resp = rsp]
              /\ UNCHANGED <<last, cur>>
    /\ UNCHANGED poolVars
    /\ UNCHANGED destVars
    /\ UNCHANGED conv
    /\ UNCHANGED cancelVars
    /\ UNCHANGED <<openPos, scriptFile, config, acked>>
    /\ UNCHANGED <<srcOpen, requestBuilder, responseParser, pollingPeriod,
                   limNext, buffer, lastPosition, lastResponseData, now,
                   cycles, appended, returned, permitLast,
                   reqLast>>

\* fillBuffer, last part: Source.parseResponse on a response with
\* status < 300
ParseResponse(r) ==
    /\ rd[r].pc = "parse"
    /\ LET rsp == rd[r].resp
           cyc == rd[r].cycle
       IN
       IF ~rsp.bodyOK
         THEN /\ Return(r, rd[r], NoRecord,
                        ReadError(ParseFailure(
                                       Wrap("error reading body", NewErr("io")))))
              /\ cur' = [cur EXCEPT !.ended = TRUE]
              /\ UNCHANGED <<buffer, lastResponseData, appended>>
       ELSE IF responseParser = "nil"
         THEN /\ buffer' = AppendRecords(buffer,
                     <<parseAsSingleRecord(rsp.header, rsp.body, now, <<cyc, 1>>)>>)
              /\ appended' = Append(appended, <<cyc, 1>>)
              /\ rd' = [rd EXCEPT ![r].pc = "pop"]
              /\ cur' = [cur EXCEPT !.ended = TRUE, !.ok = TRUE]
              /\ lastResponseData' = FallbackResponseData(lastResponseData, rsp)
              /\ UNCHANGED last
       ELSE \E out \in (IF responseParser = "js" THEN ParseOutcomes ELSE {}) :
              LET call == [rd[r] EXCEPT !.parsed = out, !.parses = @ + 1]
                  recs == ConvertPrefix(out.Records, rsp.header, now, cyc, 1)
              IN
              IF out.err # NoErr
                THEN /\ Return(r, call, NoRecord,
                               ReadError(ParseFailure(out.err)))
                     /\ cur' = [cur EXCEPT !.ended = TRUE]
                     /\ UNCHANGED <<buffer, lastResponseData, appended>>
                ELSE /\ buffer' = AppendRecords(buffer, recs)
                     /\ appended' = appended \o SeqTags(recs)
                     /\ IF ConvertFails(out.Records)
                          THEN /\ Return(r, call, NoRecord,
                                         ReadError(ParseFailure(ConversionError)))
                               /\ cur' = [cur EXCEPT !.ended = TRUE,
                                            !.parserOK = TRUE,
                                            !.custom = out.CustomData]
                               /\ UNCHANGED lastResponseData
                          ELSE /\ lastResponseData' =
                                      NextResponseData(lastResponseData, out)
                               /\ rd' = [rd EXCEPT ![r] = [call EXCEPT !.pc = "pop"]]
                               /\ cur' = [cur EXCEPT !.ended = TRUE,
                                            !.ok = TRUE, !.parserOK = TRUE,
                                            !.custom = out.CustomData]
                               /\ UNCHANGED last
    /\ UNCHANGED poolVars
    /\ UNCHANGED destVars
    /\ UNCHANGED conv
    /\ UNCHANGED cancelVars
    /\ UNCHANGED <<openPos, scriptFile, config, acked>>
    /\ UNCHANGED <<srcOpen, requestBuilder, responseParser, pollingPeriod,
                   limNext, lastPosition, now, cycles, returned,
                   permitLast, reqLast>>

\* getRecord, after the fill if there was one: the retry-later error on
\* an empty buffer, else the head record is removed and returned
Pop(r) ==
    /\ rd[r].pc = "pop"
    /\ IF Len(buffer) = 0
         THEN /\ Return(r, rd[r], NoRecord, ReadError(EmptyCycleError))
              /\ UNCHANGED <<buffer, lastPosition, returned>>
         ELSE /\ Return(r, rd[r], BufferHead(buffer), NoErr)
              /\ buffer' = BufferRest(buffer)
              /\ lastPosition' = NextLastPosition(lastPosition, BufferHead(buffer))
              /\ returned' = Append(returned, BufferHead(buffer).seq)
    /\ UNCHANGED poolVars
    /\ UNCHANGED destVars
    /\ UNCHANGED conv
    /\ UNCHANGED cancelVars
    /\ UNCHANGED <<openPos, scriptFile, config, acked>>
    /\ UNCHANGED <<srcOpen, requestBuilder, responseParser, pollingPeriod,
                   limNext, lastResponseData, now, cycles, cur,
                   appended, permitLast, reqLast>>

\* Source.Ack(ctx, position): logs "got ack" with the position and returns
\* nil
Ack(position) ==
    /\ srcOpen = "open"
    /\ acked' = position
    /\ UNCHANGED poolVars
    /\ UNCHANGED destVars
    /\ UNCHANGED conv
    /\ UNCHANGED cancelVars
    /\ UNCHANGED <<openPos, scriptFile, config>>
    /\ UNCHANGED <<srcOpen, requestBuilder, responseParser, pollingPeriod,
                   limNext, buffer, lastPosition, lastResponseData, now, rd,
                   last, cycles, cur, appended, returned, permitLast, reqLast>>

\* --------------------------------------------------- bridge operations
\* sourceExtension.configure and open, or newJSRequestBuilder and
\* newJSResponseParser: the scripts are loaded; the pooled bridge starts
\* with an empty pool, the single bridge with one gojaContext per function
OpenBridge(b, getScript, parseScript) ==
    /\ bridge = "none"
    /\ bridge' = b
    /\ scripts' = [f \in FnNames |->
                     IF f = getRequestDataFn THEN getScript ELSE parseScript]
    /\ created' = IF b = "single" THEN Cardinality(FnNames) ELSE 0
    /\ UNCHANGED <<gojaPool, globals, sc, scLast>>
    /\ UNCHANGED srcVars
    /\ UNCHANGED destVars
    /\ UNCHANGED conv

\* the callers that hold a gojaContext
InUse == { c \in Callers : sc[c].pc \in {"acquired", "invoked"} }

\* sync.Pool.Get hands out an idle item or, when it finds none, the
\* result of New; an item handed out is no longer in the pool
PoolGet(pool, x) == pool \ {x}

\* variant: gojaPool.Put as the last statement, reached only on success
PoolPutOnSuccess(pool, x, out) == IF out = "ok" THEN pool \cup {x} ELSE pool

\* defer gojaPool.Put(gojaCtx): sync.Pool.Put runs when the call returns,
\* whatever it returns
PoolPut(pool, x, out) == pool \cup {x}

\* the gojaContexts gojaPool.Get may return: an idle one, or a new one
\* made by gojaPool.New
PoolChoices ==
    gojaPool \cup (IF created < MaxContexts THEN {created + 1} ELSE {})

\* the first statement of getRequestData / parseResponseData
\* (gojaPool.Get), or of build / parse (r.gojaCtx with addLogger)
Acquire(c, fnName) ==
    /\ bridge # "none"
    /\ sc[c].pc = "idle"
    /\ \E x \in (IF bridge = "pooled" THEN PoolChoices
                                      ELSE {OwnContext(fnName)}) :
        /\ sc' = [sc EXCEPT ![c] =
                    [IdleCall EXCEPT !.pc = "acquired", !.fnName = fnName,
                                     !.ctx = x,
                                     !.prior = (globals[x].val # Undefined
                                                /\ globals[x].settled)]]
        /\ IF bridge = "pooled"
             THEN /\ gojaPool' = PoolGet(gojaPool, x)
                  /\ created' = Max(created, x)
             ELSE UNCHANGED <<gojaPool, created>>
    /\ UNCHANGED <<bridge, scripts, globals, scLast>>
    /\ UNCHANGED srcVars
    /\ UNCHANGED destVars
    /\ UNCHANGED conv

\* another call is running on the same goja runtime: a data race, after
\* which the call returns what its script returns or the runtime fails,
\* and a read of `seen` yields either value
Racing(c) == \E d \in InUse \ {c} : sc[d].ctx = sc[c].ctx

\* what the call returns when its script has run (or was never loaded)
InvokeOut(kind) ==
    CASE kind = "empty" ->
             IF bridge = "pooled" THEN "notInitialized" ELSE "panic"
      [] kind = "throws" -> "scriptError"
      [] kind = "badtype" -> "typeMismatch"
      [] OTHER -> "ok"

\* the stateful script: the URL it returns tells whether `seen` was set
ScriptResult(kind, seen) ==
    CASE kind = "stateful" -> IF seen = Undefined THEN "first" ELSE "again"
      [] kind = "stateless" -> "first"
      [] OTHER -> ""

\* the nil check and the call of the script function; the script runs on
\* the runtime of the gojaContext, whose globals survive the call
Invoke(c) ==
    /\ sc[c].pc = "acquired"
    /\ LET kind == scripts[sc[c].fnName]
           g == globals[sc[c].ctx]
           written == [val |-> "set", writer |-> c, settled |-> FALSE]
       IN  IF Racing(c)
             THEN \E o \in {InvokeOut(kind), "panic"},
                     v \in IF kind = "stateful" THEN {Undefined, "set"}
                                                ELSE {Undefined} :
                    /\ sc' = [sc EXCEPT ![c].pc = "invoked", ![c].out = o,
                                        ![c].observed = v,
                                        ![c].result = ScriptResult(kind, v)]
                    /\ globals' = IF kind = "stateful"
                                    THEN [globals EXCEPT ![sc[c].ctx] = written]
                                    ELSE globals
             ELSE /\ sc' = [sc EXCEPT
                              ![c].pc = "invoked",
                              ![c].out = InvokeOut(kind),
                              ![c].observed =
                                  IF kind = "stateful" THEN g.val ELSE Undefined,
                              ![c].result = ScriptResult(kind, g.val)]
                  /\ globals' = IF kind = "stateful"
                                  THEN [globals EXCEPT ![sc[c].ctx] = written]
                                  ELSE globals
    /\ UNCHANGED <<bridge, scripts, gojaPool, created, scLast>>
    /\ UNCHANGED srcVars
    /\ UNCHANGED destVars
    /\ UNCHANGED conv

\* the call returns; the pooled bridge runs the deferred gojaPool.Put
Release(c) ==
    /\ sc[c].pc = "invoked"
    /\ gojaPool' = IF bridge = "pooled"
                     THEN PoolPut(gojaPool, sc[c].ctx, sc[c].out)
                     ELSE gojaPool
    /\ scLast' = [sc[c] EXCEPT !.pc = "returned"]
    /\ globals' = [x \in DOMAIN globals |->
                      IF globals[x].writer = c
                        THEN [globals[x] EXCEPT !.writer = 0, !.settled = TRUE]
                        ELSE globals[x]]
    /\ sc' = [sc EXCEPT ![c] = IdleCall]
    /\ UNCHANGED <<bridge, scripts, created>>
    /\ UNCHANGED srcVars
    /\ UNCHANGED destVars
    /\ UNCHANGED conv

\* ---------------------------------------------------------- specifications
\* the host calls Read again only after the previous Read has returned
HostSequential == \A q \in Readers : rd[q].pc = "idle"

OpenStep ==
    \E pos \in OpenPositions, g \in {"", "ok"}, p \in {"", "ok"},
       period \in 1..MaxPeriod, st \in StatusCodes \cup {0} :
        Open(pos, g, p, period, st)

ReadStep ==
    \E r \in Readers :
        \/ LimiterAdmit(r)
        \/ BuildRequest(r)
        \/ DoRequest(r)
        \/ TransportError(r)
        \/ \E rsp \in Responses : ReceiveResponse(r, rsp)
        \/ ParseResponse(r)
        \/ Pop(r)

Next ==
    \/ OpenStep
    \/ Tick
    \/ \E r \in Readers : HostSequential /\ ReadStart(r)
    \/ ReadStep

Spec == Init /\ [][Next]_vars

\* a host that issues overlapping Read calls, on a Source without
\* scripts
OpenStepNoScripts ==
    \E pos \in OpenPositions, period \in 1..MaxPeriod,
       st \in StatusCodes \cup {0} :
        Open(pos, "", "", period, st)

\* the responses of its endpoint: one header set, a body that reads
PlainResponses ==
    { rsp \in Responses :
        rsp.bodyOK /\ \A h \in HeaderSets : DOMAIN rsp.header \subseteq DOMAIN h }

ReadStepPlain ==
    \E r \in Readers :
        \/ LimiterAdmit(r)
        \/ BuildRequest(r)
        \/ DoRequest(r)
        \/ TransportError(r)
        \/ \E rsp \in PlainResponses : ReceiveResponse(r, rsp)
        \/ ParseResponse(r)
        \/ Pop(r)

NextOverlap ==
    \/ OpenStepNoScripts
    \/ Tick
    \/ \E r \in Readers : ReadStart(r)
    \/ ReadStepPlain

SpecOverlap == Init /\ [][NextOverlap]_vars

\* a host that cancels the context of its Read calls, on a Source with
\* both scripts and no resume position
OpenStepScripts ==
    \E period \in 1..MaxPeriod, st \in StatusCodes \cup {0} :
        Open(NoPos, "ok", "ok", period, st)

NextCancel ==
    \/ OpenStepScripts
    \/ Tick
    \/ \E r \in Readers : HostSequential /\ ReadStart(r)
    \/ ReadStepPlain
    \/ Cancel
    \/ \E r \in Readers : LimiterCancelled(r)

SpecCancel == Init /\ [][NextCancel]_vars

\* a host that acknowledges the record its last Read returned, while it
\* goes on reading
AckStep ==
    /\ last.done
    /\ last.rec # NoRecord
    /\ Ack(last.rec.Position)

NextAck ==
    \/ OpenStep
    \/ Tick
    \/ \E r \in Readers : HostSequential /\ ReadStart(r)
    \/ ReadStepPlain
    \/ AckStep

SpecAck == Init /\ [][NextAck]_vars

\* Source.toSDKRecord is called, once, for jsRec and a response with this
\* header
Convert(jsRec, header) ==
    /\ ~conv.called
    /\ conv' = [called |-> TRUE, jsRec |-> jsRec, header |-> header,
                t |-> now,
                rec |-> IF UnmarshalTextOK(jsRec.Operation)
                          THEN toSDKRecord(jsRec, header, now, <<1, 1>>)
                          ELSE NoRecord,
                err |-> IF UnmarshalTextOK(jsRec.Operation)
                          THEN NoErr
                          ELSE Wrap("could not unmarshal operation",
                                    NewErr("ErrUnknownOperation"))]
    /\ UNCHANGED srcVars
    /\ UNCHANGED poolVars
    /\ UNCHANGED destVars

\* conversions of every script record, at every clock reading
NextConv ==
    \/ Tick
    \/ \E jsRec \in JsRecordsAll, header \in HeaderSets : Convert(jsRec, header)

SpecConv == Init /\ [][NextConv]_vars

\* a host opening Sources over every kind of script file
OpenFilesStep ==
    \E pos \in OpenPositions, g \in ScriptFiles, p \in ScriptFiles,
       period \in 1..MaxPeriod, st \in StatusCodes \cup {0} :
        Open(pos, g, p, period, st)

ConfigureStep ==
    \E u \in ConfigURLs, params \in ConfigParams : Configure(u, params)

NextOpen ==
    \/ ConfigureStep
    \/ OpenFilesStep
    \/ Tick

SpecOpen == Init /\ [][NextOpen]_vars

\* goroutines calling the script bridge concurrently
OpenBridgeStep ==
    \E b \in Bridges, g \in ScriptKinds, p \in ScriptKinds :
        OpenBridge(b, g, p)

NextPool ==
    \/ OpenBridgeStep
    \/ \E c \in Callers, f \in FnNames : Acquire(c, f)
    \/ \E c \in Callers : Invoke(c)
    \/ \E c \in Callers : Release(c)

SpecPool == Init /\ [][NextPool]_vars


\* ------------------------------------------------- Destination actions
\* variant: only server errors fail a request
IsServerError(st) == st >= 500

\* sendRequest's status test: resp.StatusCode >= 400
IsFailureStatus(st) == st >= 400

\* Destination.sendRequest: the error it returns for the outcome of the
\* request
sendRequest(out) ==
    IF out = 0
    THEN Wrap("error getting data from URL", NewErr("transport"))
    ELSE IF IsFailureStatus(out)
         THEN [NewErr("got an unexpected response status")
                  EXCEPT !.status = out]
         ELSE NoErr

\* the count Write returns after its loop sent every record
WrittenAll(records) == 0

\* Destination.Write is called with a batch of n records
Write(n) ==
    /\ dw.pc \in {"idle", "returned"}
    /\ dw' = [IdleWrite EXCEPT !.pc = "loop", !.records = n]
    /\ UNCHANGED srcVars
    /\ UNCHANGED poolVars
    /\ UNCHANGED conv

\* one iteration of Write's loop: sendRequest for records[i]; on an error
\* Write returns (i, err)
SendRequest(out) ==
    /\ dw.pc = "loop"
    /\ dw.i < dw.records
    /\ LET err == sendRequest(out) IN
        dw' = IF err # NoErr
              THEN [dw EXCEPT !.pc = "returned", !.sent = Append(@, out),
                              !.recs = Append(@, dw.i),
                              !.n = dw.i, !.err = err]
              ELSE [dw EXCEPT !.i = @ + 1, !.sent = Append(@, out),
                              !.recs = Append(@, dw.i)]
    /\ UNCHANGED srcVars
    /\ UNCHANGED poolVars
    /\ UNCHANGED conv

\* the loop is over: Write returns
WriteReturn ==
    /\ dw.pc = "loop"
    /\ dw.i = dw.records
    /\ dw' = [dw EXCEPT !.pc = "returned", !.n = WrittenAll(dw.records),
                        !.err = NoErr]
    /\ UNCHANGED srcVars
    /\ UNCHANGED poolVars
    /\ UNCHANGED conv

\* a host writing batches to the destination
NextDest ==
    \/ \E n \in 0..MaxBatch : Write(n)
    \/ \E out \in DestOutcomes : SendRequest(out)
    \/ WriteReturn

SpecDest == Init /\ [][NextDest]_vars

\* ------------------------------------------------------------- properties
\* readers that have filled the buffer and are about to pop
AfterFill == { r \in Readers : rd[r].pc = "pop" /\ rd[r].requests = 1 }

\* C1: with a request builder and a response parser configured, when poll
\* cycle k ended successfully with the parser's Response carrying
\* CustomData D, the builder call of cycle k+1 receives exactly D as its
\* previousResponseData.
C1_CarryChain ==
    [][ (cur'.n # cur.n /\ cur'.built /\ cur.ok /\ cur.parserOK)
            => cur'.buildPrev = cur.custom ]_vars

C1_Witness ==
    /\ cur.n = 2
    /\ cur.built
    /\ cur.buildPrev = {<<"nextPageToken", "tok2">>}

\* C2: Read returns the records in the order they were appended: the
\* returned records followed by the buffered ones are exactly the appended
\* ones (none twice, none skipped), they are ordered by cycle and then by
\* their index in the parser's Records, and after a fill the buffer holds
\* the parser's records in the parser's order.
TagBefore(a, b) == a[1] < b[1] \/ (a[1] = b[1] /\ a[2] < b[2])

C2_RecordOrder ==
    /\ returned \o SeqTags(buffer) = appended
    /\ \A i, j \in DOMAIN returned : i < j => TagBefore(returned[i], returned[j])
    /\ \A i \in DOMAIN returned, j \in DOMAIN buffer :
           TagBefore(returned[i], buffer[j].seq)
    /\ \A r \in AfterFill :
           rd[r].parses = 1 =>
               /\ Len(buffer) = Len(rd[r].parsed.Records)
               /\ \A i \in DOMAIN buffer :
                      /\ buffer[i].seq = <<rd[r].cycle, i>>
                      /\ buffer[i].Position = rd[r].parsed.Records[i].Position

C2_Witness ==
    /\ Len(returned) >= 3
    /\ \E i, j \in DOMAIN returned : returned[i][1] = 1 /\ returned[j][1] = 2

\* C3: a Read that finds the buffer non-empty returns its head, removes
\* exactly that record, sets lastPosition to the record's Position and
\* neither waits at the limiter, nor calls the builder, nor sends a request.
C3_ReadFromBuffer ==
    (last.done /\ last.call.startBuf # <<>>) =>
        /\ last.err = NoErr
        /\ last.rec = last.call.startBuf[1]
        /\ buffer = SubSeq(last.call.startBuf, 2, Len(last.call.startBuf))
        /\ lastPosition = last.rec.Position
        /\ last.call.waits = 0
        /\ last.call.builds = 0
        /\ last.call.requests = 0
        /\ last.call.parses = 0

C3_Witness ==
    /\ last.done
    /\ Len(last.call.startBuf) = 1
    /\ last.rec.Position = "p2"

\* C4: a Read that finds the buffer empty and whose poll cycle succeeds
\* with a parser Response of zero records returns no record and an error
\* that is the retry-later sentinel (sdk.ErrBackoffRetry under errors.Is),
\* after one limiter wait and one request.
C4_EmptyCycle ==
    (/\ last.done
     /\ last.call.startBuf = <<>>
     /\ last.call.parses = 1
     /\ last.call.parsed.err = NoErr
     /\ last.call.parsed.Records = <<>>) =>
        /\ last.rec = NoRecord
        /\ last.err.root = "ErrBackoffRetry"
        /\ last.err.status = 0
        /\ last.call.waits = 1
        /\ last.call.requests = 1
        /\ buffer = <<>>

C4_Witness ==
    /\ last.done
    /\ last.call.parses = 1
    /\ last.call.parsed.Records = <<>>
    /\ last.err.root = "ErrBackoffRetry"

\* C5 as stated: on a response with status >= 300 Read returns an error
\* carrying the status code and the response body, after exactly one
\* request, without calling the parser and without appending.
C5_Original ==
    (last.done /\ last.call.resp.status >= 300) =>
        /\ last.rec = NoRecord
        /\ last.err.root = "status"
        /\ last.err.status = last.call.resp.status
        /\ last.err.cause = last.call.resp.body
        /\ last.call.requests = 1
        /\ last.call.parses = 0
        /\ buffer = <<>>

\* C5 (amended): on a response with status >= 300 Read returns an error
\* carrying the status code and, when the body could be read, the response
\* body, else the text "unknown"; it sends exactly one request, never
\* calls the parser and appends nothing.
C5_StatusError ==
    (last.done /\ last.call.resp.status >= 300) =>
        /\ last.rec = NoRecord
        /\ last.err.root = "status"
        /\ last.err.status = last.call.resp.status
        /\ last.call.resp.bodyOK => last.err.cause = last.call.resp.body
        /\ ~last.call.resp.bodyOK => last.err.cause = "unknown"
        /\ last.call.requests = 1
        /\ last.call.parses = 0
        /\ buffer = <<>>
        /\ appended = returned

C5_Witness ==
    /\ last.done
    /\ last.call.resp.status = 300
    /\ last.err.cause = "hello"

\* C6: a script record with a recognized Operation string is buffered
\* with the corresponding operation; a Response holding a record whose
\* Operation string is not recognized makes Read return a conversion
\* error and no record.
CanonicalOperation ==
    [create |-> "OperationCreate", update |-> "OperationUpdate",
     delete |-> "OperationDelete", snapshot |-> "OperationSnapshot"]

C6_OperationMapping ==
    /\ \A r \in AfterFill :
           rd[r].parses = 1 =>
               \A i \in DOMAIN rd[r].parsed.Records :
                   LET op == rd[r].parsed.Records[i].Operation
                   IN /\ op \in DOMAIN CanonicalOperation \cup {""}
                      /\ i \in DOMAIN buffer
                      /\ op # "" => buffer[i].Operation = CanonicalOperation[op]
    /\ (/\ last.done
        /\ last.call.parses = 1
        /\ last.call.parsed.err = NoErr
        /\ \E i \in DOMAIN last.call.parsed.Records :
               last.call.parsed.Records[i].Operation
                   \notin DOMAIN CanonicalOperation \cup {""}) =>
           /\ last.rec = NoRecord
           /\ last.err.root = "ErrUnknownOperation"
           /\ "failed converting JS record to opencdc.Record"
                  \in { last.err.chain[k] : k \in DOMAIN last.err.chain }

C6_Witness ==
    /\ last.done
    /\ last.err.root = "ErrUnknownOperation"
    /\ Len(last.call.parsed.Records) = 2
    /\ last.call.parsed.Records[1].Operation = "update"
    /\ last.call.parsed.Records[2].Operation = "frobnicate"

\* C7: without a response parser, a poll cycle that succeeds appends
\* exactly one record: Payload.After is the raw body, Payload.Before is
\* absent, Operation is create, and Metadata holds every response header
\* (values joined by ",") and a read-timestamp entry.
CommaJoined(vals) ==
    IF Len(vals) = 1 THEN vals[1] ELSE vals[1] \o "," \o vals[2]

C7_Fallback ==
    \A r \in AfterFill :
        responseParser = "nil" =>
            /\ rd[r].resp.status < 300
            /\ Len(buffer) = 1
            /\ buffer[1].After = [kind |-> "raw", val |-> rd[r].resp.body]
            /\ buffer[1].Before.kind = "nil"
            /\ buffer[1].Operation = "OperationCreate"
            /\ \A h \in DOMAIN rd[r].resp.header :
                   /\ h \in DOMAIN buffer[1].Metadata
                   /\ buffer[1].Metadata[h] = CommaJoined(rd[r].resp.header[h])
            /\ "opencdc.readAt" \in DOMAIN buffer[1].Metadata

C7_Witness ==
    \E r \in AfterFill :
        /\ responseParser = "nil"
        /\ "Allow" \in DOMAIN buffer[1].Metadata
        /\ buffer[1].Metadata["Allow"] = "GET,HEAD"
        /\ buffer[1].After.val = "hello"


\* readers whose poll cycle is under way
InCycle == { r \in Readers : rd[r].pc \in {"build", "request", "inflight", "parse"} }

\* C8 as stated: a poll request is issued only while no other poll cycle
\* of the Source is in flight, also under overlapping Read calls, and at
\* least one pollingPeriod after the previous poll request.
C8_Original ==
    [][ \A r \in Readers :
          (rd[r].pc = "request" /\ rd'[r].pc = "inflight") =>
              /\ InCycle = {r}
              /\ reqLast # Never => reqLast' - reqLast >= pollingPeriod ]_vars

\* C8 (amended): the limiter spaces the polls, not the requests: the
\* permits (timeToAct) of any two consecutive limiter reservations are at
\* least one pollingPeriod apart and no poll request is issued before its
\* permit, also under overlapping Read calls; cycles are serialized only
\* by a host that serializes its Read calls, and a request may follow the
\* previous request by less than a period.
C8_PermitSpacing ==
    [][ \A r \in Readers :
          /\ (rd[r].pc = "idle" /\ rd'[r].pc = "wait" /\ permitLast # Never) =>
                 /\ permitLast' - permitLast >= pollingPeriod
                 /\ rd'[r].actAt = permitLast'
          /\ (rd[r].pc = "request" /\ rd'[r].pc = "inflight") =>
                 /\ reqLast' = now
                 /\ now >= rd[r].actAt ]_vars

C8_Witness ==
    \E r, q \in Readers :
        /\ rd[r].pc = "inflight"
        /\ rd[q].pc = "wait"
        /\ rd[q].actAt > now

\* C9: exclusive loan of script contexts. In every interleaving of
\* getRequestData (build) and parseResponse (parse) calls, no two calls
\* that are executing hold the same gojaContext.
C9_ExclusiveLoan ==
    \A c \in InUse, d \in InUse : c # d => sc[c].ctx # sc[d].ctx

\* C10: pool isolation. When a call that had returned before this call
\* began has set the global `seen` on the gojaContext this call runs on,
\* a script that reads `seen` before setting it still finds it unset,
\* and so returns what a first call returns.
C10_PoolIsolation ==
    \A c \in Callers :
        (sc[c].pc = "invoked" /\ sc[c].out = "ok" /\ sc[c].prior
         /\ scripts[sc[c].fnName] = "stateful")
            => (sc[c].observed = Undefined /\ sc[c].result = "first")

\* the gojaContexts checked out of the pool
CheckedOut == (1..created) \ gojaPool

\* C11: guaranteed release. On the pooled bridge a gojaContext is checked
\* out exactly while a call holds it: a call that has returned, whether
\* with a result, a script error, a not-initialized error or a type
\* mismatch, has put its gojaContext back, and when no call is in flight
\* no gojaContext is checked out.
C11_GuaranteedRelease ==
    bridge = "pooled" =>
        /\ CheckedOut = { sc[c].ctx : c \in InUse }
        /\ InUse = {} => CheckedOut = {}
        /\ scLast.pc = "returned" =>
              /\ scLast.out \in {"ok", "scriptError", "notInitialized",
                                 "typeMismatch"}
              /\ scLast.ctx \in gojaPool \cup { sc[c].ctx : c \in InUse }

C11_Witness ==
    /\ bridge = "pooled"
    /\ scLast.pc = "returned"
    /\ scLast.out = "scriptError"
    /\ InUse = {}
    /\ created = MaxContexts
    /\ gojaPool = 1..created

\* C12: failure propagation. A Read whose request builder returned an
\* error returns no record and an error that is the builder's error
\* (errors.Is), without sending a request; a Read whose response parser
\* returned an error returns no record and an error that is the parser's
\* error, without appending to the buffer; neither error is the
\* retry-later sentinel.
C12_FailurePropagation ==
    last.done =>
        /\ last.call.buildErr # NoErr =>
              /\ last.rec = NoRecord
              /\ last.err.root = last.call.buildErr.root
              /\ last.err.root # ErrBackoffRetry.root
              /\ last.call.requests = 0
              /\ buffer = last.call.startBuf
        /\ (last.call.parses = 1 /\ last.call.parsed.err # NoErr) =>
              /\ last.rec = NoRecord
              /\ last.err.root = last.call.parsed.err.root
              /\ last.err.root # ErrBackoffRetry.root
              /\ buffer = last.call.startBuf

C12_Witness ==
    /\ last.done
    /\ last.call.builds = 1
    /\ last.call.buildErr = NoErr
    /\ last.call.parses = 1
    /\ last.call.parsed.err # NoErr
    /\ last.err.root = "ScriptExecutionError"
    /\ Len(last.err.chain) = 2

\* C13: cancellation at the rate limiter. When the context is cancelled
\* while a Read sleeps in limiter.Wait, or is found cancelled when a Read
\* with an empty buffer enters limiter.Wait, the Read goes no further: it
\* returns no record and an error that is context.Canceled, having called
\* no request builder and sent no request, and buffer, lastPosition and
\* lastResponseData are as the Read found them.
C13_CancelAtLimiter ==
    [][ \A r \in Readers :
          /\ (~ctxDone /\ ctxDone' /\ rd[r].pc = "wait" /\ now < rd[r].actAt) =>
                 rd'[r].pc = "cancelled"
          /\ rd[r].pc \in {"wait", "cancelled"} =>
                 /\ buffer' = buffer /\ buffer = rd[r].startBuf
                 /\ lastPosition' = lastPosition
                 /\ lastResponseData' = lastResponseData
          /\ rd[r].pc = "cancelled" =>
                 /\ rd'[r].pc \in {"cancelled", "idle"}
                 /\ rd'[r].pc = "idle" =>
                       /\ last'.done /\ last'.rec = NoRecord
                       /\ last'.err.root = CancelError.root
                       /\ last'.call.builds = 0 /\ last'.call.requests = 0
          /\ (HostSequential /\ ctxDone /\ buffer = <<>> /\ rd'[r].pc # "idle") =>
                 FALSE
          /\ (HostSequential /\ ctxDone /\ buffer = <<>> /\ last' # last) =>
                 /\ last'.done /\ last'.rec = NoRecord
                 /\ last'.err.root = CancelError.root
                 /\ last'.call.builds = 0 /\ last'.call.requests = 0
                 /\ buffer' = buffer
                 /\ lastPosition' = lastPosition
                 /\ lastResponseData' = lastResponseData ]_vars

C13_Witness ==
    /\ last.done
    /\ last.err.root = CancelError.root
    /\ last.call.waits = 1
    /\ last.call.actAt > now
    /\ cycles >= 1
    /\ lastResponseData # {}

\* records returned since the context was cancelled
ReturnedSinceCancel == SubSeq(returned, cancelRet + 1, Len(returned))

\* C14: drain after cancellation. The records buffered when the context
\* was cancelled are returned by the following Read calls, in order, and
\* a Read that finds the buffer non-empty returns its head and no error,
\* cancelled context or not; only a Read that finds the buffer empty
\* returns the cancellation.
C14_DrainAfterCancel ==
    ctxDone =>
        /\ \A i \in 1..Len(ReturnedSinceCancel) :
              i <= Len(cancelBuf) => ReturnedSinceCancel[i] = cancelBuf[i]
        /\ Len(ReturnedSinceCancel) < Len(cancelBuf) =>
              SeqTags(buffer) = SubSeq(cancelBuf, Len(ReturnedSinceCancel) + 1,
                                       Len(cancelBuf))
        /\ (last.done /\ last.call.startBuf # <<>>) =>
              /\ last.err = NoErr
              /\ last.rec = Head(last.call.startBuf)
        /\ (last.done /\ last.err.root = CancelError.root) =>
              last.call.startBuf = <<>>

C14_Witness ==
    /\ ctxDone
    /\ Len(cancelBuf) = 2
    /\ Len(ReturnedSinceCancel) = 2
    /\ last.done
    /\ last.err = NoErr
    /\ last.rec.seq = cancelBuf[2]


\* C15: a Write call whose requests were all answered with a status below
\* 400 returns (n, nil), n being the number of records of the batch
C15_WriteCount ==
    (/\ dw.pc = "returned"
     /\ Len(dw.sent) = dw.records
     /\ \A k \in 1..Len(dw.sent) : dw.sent[k] \in 1..399)
        => (dw.n = dw.records /\ dw.err = NoErr)

\* C16: the first request-builder call after Open(pos) gets pos as its
\* position argument and no previous response data
C16_PositionInit ==
    [][(cur.n = 0 /\ cur'.n = 1 /\ cur'.built)
          => (cur'.buildPos = openPos /\ cur'.buildPrev = {})]_vars

\* the builder's first call got the position "p0" that Open was given
C16_Witness ==
    /\ cur.n = 1
    /\ cur.built
    /\ cur.buildPos = "p0"
    /\ cur.buildPrev = {}
    /\ returned = <<>>

\* C17: Open does not succeed with a configured script file that cannot
\* be read, does not compile, or does not define the expected function
C17_InitErrorsBlockStartup ==
    srcOpen = "open" =>
        \A f \in FnNames : scriptFile[f] \in {"", "ok"}

\* the opencdc.Data that stands for a script value
DataOf(d) ==
    IF d.kind = "raw" THEN [kind |-> "raw", val |-> d.val]
    ELSE IF d.kind = "map" THEN [kind |-> "structured", val |-> d.val]
    ELSE [kind |-> "nil", val |-> ""]

\* the conversion of a record with a recognized Operation keeps the
\* script's Position, maps the Operation, and takes Key and Payload from
\* the script's values
ConvKeepsFields ==
    /\ conv.err = NoErr
    /\ conv.rec.Position = conv.jsRec.Position
    /\ conv.rec.Operation = CanonicalOperation[conv.jsRec.Operation]
    /\ conv.rec.Key = DataOf(conv.jsRec.Key)
    /\ conv.rec.Before = DataOf(conv.jsRec.Before)
    /\ conv.rec.After = DataOf(conv.jsRec.After)

ConvHasScriptMetadata ==
    \A k \in DOMAIN conv.jsRec.Metadata :
        /\ k \in DOMAIN conv.rec.Metadata
        /\ conv.rec.Metadata[k] = conv.jsRec.Metadata[k]

\* C18, as stated: the emitted record keeps the script's fields, and its
\* Metadata holds every entry of the script's Metadata, every response
\* header and a read-timestamp entry
C18_Original ==
    (conv.called /\ conv.jsRec.Operation \in RecognizedOps) =>
        /\ ConvKeepsFields
        /\ ConvHasScriptMetadata
        /\ \A h \in DOMAIN conv.header :
               /\ h \in DOMAIN conv.rec.Metadata
               /\ conv.rec.Metadata[h] = Join(conv.header[h])
        /\ ReadAtKey \in DOMAIN conv.rec.Metadata

\* C18, amended: the emitted record keeps the script's fields, and its
\* Metadata holds every entry of the script's Metadata, every response
\* header whose name is not a key of the script's Metadata, and a
\* read-timestamp entry, which is the time of the read unless the script
\* set that key
C18_ScriptedConversion ==
    (conv.called /\ conv.jsRec.Operation \in RecognizedOps) =>
        /\ ConvKeepsFields
        /\ ConvHasScriptMetadata
        /\ \A h \in DOMAIN conv.header \ DOMAIN conv.jsRec.Metadata :
               /\ h \in DOMAIN conv.rec.Metadata
               /\ conv.rec.Metadata[h] = Join(conv.header[h])
        /\ ReadAtKey \in DOMAIN conv.rec.Metadata
        /\ ReadAtKey \notin DOMAIN conv.jsRec.Metadata
              => conv.rec.Metadata[ReadAtKey] = ToString(conv.t)
        /\ DOMAIN conv.rec.Metadata =
              DOMAIN conv.jsRec.Metadata \cup DOMAIN conv.header \cup {ReadAtKey}

\* a record whose script Metadata sets a key that is also a response
\* header has been converted
C18_Witness ==
    /\ conv.called
    /\ conv.jsRec.Operation = "update"
    /\ conv.jsRec.Key.kind = "raw"
    /\ conv.jsRec.After.kind = "map"
    /\ "X-Foo" \in DOMAIN conv.jsRec.Metadata
    /\ "X-Foo" \in DOMAIN conv.header
    /\ conv.rec.Metadata["X-Foo"] = "from-script"
    /\ conv.t > 0

\* the steps a Read call may take from one position to the next: limiter
\* admission, request build, HTTP request, response, parse with buffer
\* append, then the pop; every position of a poll cycle may also end the
\* call with an error
CycleOrder ==
    { <<"idle", "wait">>, <<"idle", "pop">>, <<"wait", "build">>,
      <<"wait", "cancelled">>, <<"cancelled", "idle">>,
      <<"build", "request">>, <<"build", "idle">>,
      <<"request", "inflight">>, <<"request", "idle">>,
      <<"inflight", "parse">>, <<"inflight", "idle">>,
      <<"parse", "pop">>, <<"parse", "idle">>, <<"pop", "idle">> }

\* C19: a Read call goes through limiter admission, request build, HTTP
\* request, parse and buffer append in this order; it sends a request only
\* after its own limiter admission, parses only a response with a status
\* below 300, appends to the buffer only in its parse step, and gets to
\* the pop after a fill only when the request, the reading of the body,
\* the parser and the conversion have all succeeded.
C19_CycleOrder ==
    [][\A r \in Readers :
          LET a == rd[r].pc
              b == rd'[r].pc
          IN
          /\ a # b => <<a, b>> \in CycleOrder
          /\ (a = "wait" /\ b = "build") => rd[r].waits = 1
          /\ (a = "request" /\ b = "inflight") =>
                /\ rd[r].waits = 1
                /\ rd[r].requests = 0
                /\ rd'[r].requests = 1
          /\ (a # "request") => rd'[r].requests \in {rd[r].requests, 0}
          /\ (a = "inflight" /\ b = "parse") =>
                /\ rd'[r].resp.status \in 1..299
                /\ rd[r].requests = 1
          /\ (\A q \in Readers : rd[q].pc # "parse") => appended' = appended
          /\ (a = "parse" /\ b = "pop") =>
                /\ rd[r].resp.status \in 1..299
                /\ rd[r].resp.bodyOK
                /\ rd'[r].parses = 1 =>
                      /\ rd'[r].parsed.err = NoErr
                      /\ ~ConvertFails(rd'[r].parsed.Records)
                /\ cur'.ok
          /\ (a \in {"build", "request", "inflight", "parse"} /\ b = "idle") =>
                /\ last'.done
                /\ last'.err # NoErr
                /\ ~cur'.ok
      ]_vars

\* a Read call has gone through a whole poll cycle, with builder and
\* parser, and is about to pop the first of two appended records
C19_Witness ==
    \E r \in Readers :
        /\ rd[r].pc = "pop"
        /\ rd[r].waits = 1
        /\ rd[r].builds = 1
        /\ rd[r].requests = 1
        /\ rd[r].parses = 1
        /\ Len(buffer) = 2
        /\ rd[r].cycle = 2

\* the number of records the poll cycle c has appended to the buffer
AppendedBy(c) ==
    Cardinality({ i \in DOMAIN appended : appended[i][1] = c })

\* a Read call that waits at the limiter, calls the builder, sends a
\* request or runs a poll cycle has found the buffer empty, and does each
\* of these at most once
OneCycleFromEmpty(call) ==
    /\ (call.waits > 0 \/ call.builds > 0 \/ call.requests > 0
          \/ call.cycle > 0) => call.startBuf = <<>>
    /\ call.waits <= 1
    /\ call.builds <= 1
    /\ call.requests <= 1
    /\ call.parses <= 1

\* C20: a poll cycle (builder call and HTTP request) is started only by a
\* Read call that finds the buffer empty; a Read call starts at most one
\* poll cycle, and it takes at most one record out of the buffer: the one
\* it returns.
C20_RefillOnlyWhenEmpty ==
    /\ \A r \in Readers : OneCycleFromEmpty(rd[r])
    /\ last.done =>
          /\ OneCycleFromEmpty(last.call)
          /\ Len(buffer) =
                Len(last.call.startBuf)
                + (IF last.call.cycle > 0 THEN AppendedBy(last.call.cycle) ELSE 0)
                - (IF last.err = NoErr THEN 1 ELSE 0)
          /\ last.err = NoErr =>
                /\ Len(returned) > 0
                /\ last.rec.seq = returned[Len(returned)]
          /\ last.err # NoErr => last.rec = NoRecord

\* a Read call found the buffer empty, ran the second poll cycle, which
\* appended two records, and returned the first of them
C20_Witness ==
    /\ last.done
    /\ last.err = NoErr
    /\ last.call.startBuf = <<>>
    /\ last.call.cycle = 2
    /\ last.call.builds = 1
    /\ last.call.requests = 1
    /\ AppendedBy(2) = 2
    /\ Len(buffer) = 1

\* C21: after a response that was parsed and converted without an error,
\* also one with no records, lastResponseData is that response's
\* CustomData: the previous CustomData is replaced, not merged
C21_CustomDataOverwrite ==
    /\ (cur.ok /\ cur.parserOK) => lastResponseData = cur.custom
    /\ \A r \in AfterFill :
          rd[r].parses = 1 => lastResponseData = rd[r].parsed.CustomData

\* the second cycle got a Response without records and without
\* CustomData after the first one had left a page token
C21_Witness ==
    /\ cur.n = 2
    /\ cur.ok
    /\ cur.parserOK
    /\ cur.buildPrev = {<<"nextPageToken", "tok2">>}
    /\ cur.custom = {}
    /\ lastResponseData = {}
    /\ \E r \in AfterFill : rd[r].parsed.Records = <<>>

\* C22: when the getRequestData script returns a value that is not a
\* Request, build returns the type-mismatch error and no Request, and the
\* Read call fails with that error without sending a request; when the
\* parseResponse script returns a value that is not a Response, parse
\* returns the type-mismatch error and no Response, and the Read call
\* fails with that error, nothing is appended to the buffer and
\* lastResponseData stays as it was.
C22_TypeMismatch ==
    /\ \A r \in Readers :
          /\ rd[r].buildErr.root # "TypeMismatch"
          /\ rd[r].parsed.err.root # "TypeMismatch"
    /\ (last.done /\ last.call.buildErr.root = "TypeMismatch") =>
          /\ last.call.reqData = ""
          /\ last.call.requests = 0
          /\ last.call.parses = 0
          /\ last.rec = NoRecord
          /\ last.err.root = "TypeMismatch"
          /\ AppendedBy(last.call.cycle) = 0
          /\ buffer = <<>>
          /\ cur.ended /\ ~cur.ok
    /\ (last.done /\ last.call.parsed.err.root = "TypeMismatch") =>
          /\ last.call.parsed.Records = <<>>
          /\ last.call.parsed.CustomData = {}
          /\ last.call.requests = 1
          /\ last.rec = NoRecord
          /\ last.err.root = "TypeMismatch"
          /\ AppendedBy(last.call.cycle) = 0
          /\ buffer = <<>>
          /\ cur.built => lastResponseData = cur.buildPrev
          /\ cur.ended /\ ~cur.ok

\* the builder of the second cycle returned the type-mismatch error
\* after the first cycle had left a page token
C22_Witness ==
    /\ last.done
    /\ last.call.cycle = 2
    /\ last.call.builds = 1
    /\ last.call.buildErr.root = "TypeMismatch"
    /\ lastResponseData # {}

\* C23: a build or parse call on a bridge whose function was not loaded
\* returns the not-initialized error and no result: it does not call the
\* missing function and does not crash
C23_NotInitialized ==
    \A c \in Callers :
        (sc[c].pc = "invoked" /\ scripts[sc[c].fnName] = "empty") =>
            /\ sc[c].out = "notInitialized"
            /\ sc[c].result = ""

\* the kinds of script value that toSDKRecord converts
Convertible == {"raw", "map"}

\* C24: a script record whose Key, Payload.Before or Payload.After is
\* neither RawData nor a map is converted without an error and buffered,
\* with that field absent: after a fill the buffer holds one record for
\* each script record, in order, and a Read whose parser returned only
\* records with a known Operation does not fail.
C24_PermissiveConversion ==
    /\ \A r \in AfterFill :
          rd[r].parses = 1 =>
              /\ Len(buffer) = Len(rd[r].parsed.Records)
              /\ \A i \in DOMAIN rd[r].parsed.Records :
                    LET js == rd[r].parsed.Records[i] IN
                    /\ buffer[i].seq = <<rd[r].cycle, i>>
                    /\ js.Key.kind \notin Convertible => buffer[i].Key.kind = "nil"
                    /\ js.Before.kind \notin Convertible
                          => buffer[i].Before.kind = "nil"
                    /\ js.After.kind \notin Convertible
                          => buffer[i].After.kind = "nil"
    /\ (/\ last.done
        /\ last.call.parses = 1
        /\ last.call.parsed.err = NoErr
        /\ last.call.parsed.Records # <<>>
        /\ \A i \in DOMAIN last.call.parsed.Records :
              last.call.parsed.Records[i].Operation \in RecognizedOps \cup {""})
          => (last.err = NoErr /\ last.rec.seq = <<last.call.cycle, 1>>)

\* a fill has buffered a record whose script Key is a plain string and
\* one whose script After is a plain string
C24_Witness ==
    \E r \in AfterFill :
        /\ Len(buffer) = 2
        /\ rd[r].parsed.Records[1].Key.kind = "string"
        /\ rd[r].parsed.Records[2].After.kind = "string"
        /\ buffer[1].Key.kind = "nil"
        /\ buffer[1].After.kind = "raw"
        /\ buffer[2].After.kind = "nil"
        /\ buffer[2].Key.kind = "structured"

\* C25: without a response parser, a record of one poll cycle and a
\* record of another never have the same Position: the record a later
\* cycle has put into the buffer differs in Position from the record
\* returned last
C25_FallbackPositionsDistinct ==
    (srcOpen = "open" /\ responseParser = "nil" /\ returned # <<>>) =>
        \A i \in DOMAIN buffer :
            buffer[i].seq[1] # returned[Len(returned)][1]
                => buffer[i].Position # lastPosition

\* C26: a Read whose poll cycle failed, for whatever reason, has left
\* the buffer as it found it: the cycle has appended no record
C26_FailedCycleBuffersNothing ==
    (/\ last.done
     /\ last.call.cycle > 0
     /\ last.err # NoErr
     /\ last.err.root # ErrBackoffRetry.root) =>
        /\ buffer = last.call.startBuf
        /\ AppendedBy(last.call.cycle) = 0

\* how often the pair p occurs in the query q
QueryCount(q, p) == Cardinality({ i \in DOMAIN q : q[i] = p })

\* C27: after Open the URL of the Source, which the connection test and
\* the default poll requests use, holds each params.* pair exactly once
\* more than the configured URL's own query does, and no other pair more
\* often than that query
C27_ParamsAddedOnce ==
    srcOpen = "open" =>
        \A k \in {"id", "name"}, v \in {"1", "resource1"} :
            QueryCount(config.URL.query, <<k, v>>) =
                QueryCount(config.configured.query, <<k, v>>)
                + (IF <<k, v>> \in config.Params THEN 1 ELSE 0)

\* the step is a successful Open
OpenSucceeds == srcOpen = "new" /\ srcOpen' = "open"

\* the step is a Read returning a record
ReadReturnsRecord == returned' # returned

\* C28: a successful Open(pos) sets lastPosition to pos, a Read that
\* returns a record sets it to that record's Position, and no other step
\* (a failed Read, an empty cycle, an Ack, the clock) changes it; each
\* request-builder call receives lastPosition as its position argument
C28_LastPosition ==
    [][ /\ OpenSucceeds => lastPosition' = openPos'
        /\ ReadReturnsRecord =>
              (last'.err = NoErr /\ lastPosition' = last'.rec.Position)
        /\ (~OpenSucceeds /\ ~ReadReturnsRecord) =>
              lastPosition' = lastPosition
        /\ (cur'.n # cur.n /\ cur'.built) =>
              cur'.buildPos = lastPosition ]_vars

\* a record was returned, a later Read failed, the record was acknowledged
\* and the next builder call received the record's position
C28_Witness ==
    /\ returned # <<>>
    /\ last.done
    /\ last.err # NoErr
    /\ acked = lastPosition
    /\ lastPosition \notin OpenPositions
    /\ cur.built
    /\ cur.buildPos = lastPosition

\* the request got no response, or one with a status of 400 or more
RequestFailed(out) == out = 0 \/ out >= 400

\* C29: the requests of a Write call carry the records 0, 1, 2, ... of the
\* batch in this order, one request each; a request that fails or is
\* answered with a status >= 400 is the last one of the call, and the call
\* returns (i, error) with i the index of the record of that request
C29_StopAtFirstFailure ==
    /\ Len(dw.recs) = Len(dw.sent)
    /\ Len(dw.recs) <= dw.records
    /\ \A k \in DOMAIN dw.recs : dw.recs[k] = k - 1
    /\ \A k \in DOMAIN dw.sent :
          RequestFailed(dw.sent[k]) =>
              /\ k = Len(dw.sent)
              /\ dw.pc = "returned"
              /\ dw.n = k - 1
              /\ dw.err # NoErr
    /\ (dw.pc = "returned" /\ dw.err # NoErr) =>
          /\ dw.sent # <<>>
          /\ RequestFailed(dw.sent[Len(dw.sent)])
          /\ dw.n = dw.recs[Len(dw.recs)]

\* a batch of three records, the second answered with status 400: Write
\* returned (1, error) after two requests
C29_Witness ==
    /\ dw.pc = "returned"
    /\ dw.records = 3
    /\ dw.sent = <<200, 400>>
    /\ dw.recs = <<0, 1>>
    /\ dw.n = 1
    /\ dw.err # NoErr

\* C30: on a Source opened without a response parser lastResponseData
\* stays empty, and every request-builder call gets empty previous
\* response data, whatever number of responses has been received
C30_FallbackKeepsResponseData ==
    (srcOpen = "open" /\ responseParser = "nil") =>
        /\ lastResponseData = {}
        /\ cur.built => cur.buildPrev = {}

\* the builder of a parser-less Source is called for the second cycle,
\* after the response of the first was turned into a record and returned
C30_Witness ==
    /\ srcOpen = "open"
    /\ responseParser = "nil"
    /\ requestBuilder = "js"
    /\ cur.n = 2
    /\ cur.built
    /\ cur.buildPrev = {}
    /\ Len(appended) >= 1
    /\ returned # <<>>

====
